---------------------------- MODULE Spec2Model ----------------------------
(***************************************************************************)
(* A model of alm.lm_autoprompt.Prompter (src/alm/lm_autoprompt.py): seed  *)
(* construction, encoding, perplexity and the iterative mask replacement.  *)
(*                                                                         *)
(* A Python string is a sequence of atoms: a vocabulary word, the mask     *)
(* token, a special token, or one space.  The tokenizer is a word-level    *)
(* one (tokens are the non-space atoms, ids are the tokens themselves),    *)
(* with one prefix special token and one suffix special token, as          *)
(* roberta-base has.  The language model is a table of logits.             *)
(***************************************************************************)
EXTENDS Integers, Sequences, FiniteSets, TLC

VARIABLES
    max_length,     \* self.max_length, fixed by __init__
    n_gpu,          \* torch.cuda.device_count() of the machine
    lm,             \* the pretrained masked language model behind self.model_name
    model,          \* self.model: "None" until load_model assigns it
    n_load,         \* how many times load_model has been invoked
    call,           \* the method call in progress or just finished, with its arguments
    outcome,        \* how that call ended: a returned value or the exception raised
    trace           \* what replace_mask did: passes made, the edit history

vars == <<max_length, n_gpu, lm, model, n_load, call, outcome, trace>>

\* ------------------------------------------------------------------ bounds
MaxLength == 6          \* largest max_length a Prompter is built with
MaxGpu == 2             \* torch.cuda.device_count() ranges over 0..MaxGpu
MaxBlank == 3           \* n_blank ranges over 0..MaxBlank
MaxAffix == 1           \* n_blank_prefix, n_blank_suffix range over 0..MaxAffix
MaxBatch == 2           \* batch_size ranges over 1..MaxBatch
MaxTopk == 2            \* topk, topk_per_position range over 1..MaxTopk
MaxRevision == 1        \* n_revision ranges over 0..MaxRevision
MaxPass == 6            \* replace_single_mask passes one replace_mask call is followed for
MaxLoad == 2            \* load_model runs a Prompter is followed for

\* ------------------------------------------------------------------ atoms
SP == " "
MASK == "<mask>"            \* tokenizer.mask_token
BOS == "<s>"
EOS == "</s>"
PAD == "<pad>"              \* tokenizer.pad_token
IGNORE == "ignore_index"    \* PAD_TOKEN_LABEL_ID, the label the loss skips
Words == {"a", "b", "c"}
special_tokens == {BOS, EOS, PAD, MASK}        \* tokenizer.all_special_tokens
Vocab == Words \cup special_tokens             \* what the model predicts over
sp_token_prefix == <<BOS>>
sp_token_suffix == <<EOS>>

\* ------------------------------------------------------------ sequences
Min(a, b) == IF a < b THEN a ELSE b

Repeat(x, n) == [i \in 1..n |-> x]

\* the concatenation of the sequences ss[i], ss[i+1], ...
RECURSIVE FlattenFrom(_, _)
FlattenFrom(ss, i) == IF i > Len(ss) THEN <<>> ELSE ss[i] \o FlattenFrom(ss, i + 1)

Flatten(ss) == FlattenFrom(ss, 1)

\* sep.join(strs)
Join(strs, sep) ==
    Flatten([i \in 1..Len(strs) |-> IF i = 1 THEN strs[i] ELSE sep \o strs[i]])

\* the characters a piece of a Python string is written with: a special token
\* is several characters long, a word or a space is one
Chars(x) ==
    CASE x = MASK -> <<"<", "m", "a", "s", "k", ">">>
      [] x = BOS -> <<"<", "s", ">">>
      [] x = EOS -> <<"<", "/", "s", ">">>
      [] x = PAD -> <<"<", "p", "a", "d", ">">>
      [] OTHER -> <<x>>

\* the characters of a Python string
Spell(s) == Flatten([i \in 1..Len(s) |-> Chars(s[i])])

\* one sequence of characters occurs in another
Occurs(cp, cs) == \E i \in 0..(Len(cs) - Len(cp)) : SubSeq(cs, i + 1, i + Len(cp)) = cp

\* `p in s` of two Python strings, a test on characters: 'a' in '<mask>'
IsInfix(p, s) == Occurs(Spell(p), Spell(s))

\* `tokenizer.mask_token in s`
ContainsMask(s) == \E i \in 1..Len(s) : s[i] = MASK

CountMask(s) == Cardinality({i \in 1..Len(s) : s[i] = MASK})

\* s without the atoms outside keep
SelectAtoms(s, keep) == SelectSeq([i \in 1..Len(s) |-> s[i]], LAMBDA x : x \in keep)

\* ------------------------------------------------------------ outcomes
Ret(v) == [kind |-> "return", val |-> v]
Raise(k) == [kind |-> k, val |-> <<>>]

\* ------------------------------------------------------------ tokenizer
\* tokenizer.tokenize: whitespace separates, every other atom is one token
tokenize(s) == SelectAtoms(s, Vocab)

\* tokenizer.convert_tokens_to_string
convert_tokens_to_string(tokens) == Join([i \in 1..Len(tokens) |-> <<tokens[i]>>], <<SP>>)

\* tokenizer.encode_plus(s, max_length=self.max_length, truncation=True,
\* padding='max_length'): special tokens added, the text truncated so that the
\* whole fits in max_length, then padded up to max_length
tokenizer_encode_plus(s) ==
    LET toks == tokenize(s)
        room == max_length - Len(sp_token_prefix) - Len(sp_token_suffix)
        body == SubSeq(toks, 1, Min(Len(toks), room))
        ids == sp_token_prefix \o body \o sp_token_suffix
    IN  ids \o Repeat(PAD, max_length - Len(ids))

\* tokenizer.decode(ids, skip_special_tokens=False)
decode(ids) == convert_tokens_to_string(ids)

\* re.sub of the mask token by the mask token with a space on each side
SpaceAroundMask(s) ==
    Flatten([i \in 1..Len(s) |-> IF s[i] = MASK THEN <<SP, MASK, SP>> ELSE <<s[i]>>])

\* re.sub(r'\s+', ' ', s)
CollapseSpaces(s) ==
    Flatten([i \in 1..Len(s) |-> IF i > 1 /\ s[i] = SP /\ s[i - 1] = SP THEN <<>> ELSE <<s[i]>>])

\* re.sub(r'\A\s*', '', s)
StripLeadingSpaces(s) ==
    LET n_space == Cardinality({i \in 1..Len(s) : \A j \in 1..i : s[j] = SP})
    IN  SubSeq(s, n_space + 1, Len(s))

cleanup_decode(sentence) ==
    LET spaced == CollapseSpaces(SpaceAroundMask(sentence))
        to_remove == special_tokens \ {MASK}
        cleaned == SelectAtoms(spaced, (Vocab \cup {SP}) \ to_remove)
    IN  StripLeadingSpaces(cleaned)

\* ------------------------------------------------------ language model
\* The models a Prompter may be built on: a logit per vocabulary entry, plus a
\* tilt that grows with the position.  One ranks words first, one ranks the
\* mask token first, one ranks a special token first.
LMs ==
    { [w |-> [t \in Vocab |-> CASE t = "a" -> 6 [] t = "b" -> 5 [] t = "c" -> 4
                                [] t = MASK -> 3 [] t = EOS -> 2 [] t = BOS -> 1
                                [] OTHER -> 0],
       tilt |-> 0],
      [w |-> [t \in Vocab |-> CASE t = MASK -> 6 [] t = "c" -> 5 [] t = "a" -> 4
                                [] t = "b" -> 3 [] t = EOS -> 2 [] t = BOS -> 1
                                [] OTHER -> 0],
       tilt |-> 1],
      [w |-> [t \in Vocab |-> CASE t = EOS -> 6 [] t = "c" -> 5 [] t = "b" -> 4
                                [] t = "a" -> 3 [] t = MASK -> 2 [] t = BOS -> 1
                                [] OTHER -> 0],
       tilt |-> 0] }

\* output['logits'][pos][tok] of self.model(**encode)
logits(pos, tok) == lm.w[tok] + lm.tilt * pos

\* prediction_scores.topk(k, dim=-1) at one position: values and indices
topk_at(pos, k) ==
    LET rank(t) == Cardinality({u \in Vocab : logits(pos, u) > logits(pos, t)})
        tokAt(r) == CHOOSE t \in Vocab : rank(t) = r
    IN  [values |-> [j \in 1..k |-> logits(pos, tokAt(j - 1))],
         indices |-> [j \in 1..k |-> tokAt(j - 1)]]

\* nn.CrossEntropyLoss(reduction='none') at one position: log-sum-exp minus
\* the logit of the label, 0 where the label is ignore_index
cross_entropy(pos, label) ==
    IF label = IGNORE THEN 0
    ELSE LET top == CHOOSE t \in Vocab : \A u \in Vocab : logits(pos, u) <= logits(pos, t)
         IN  logits(pos, top) + 1 - logits(pos, label)

\* DataLoader(..., batch_size=batch_size, shuffle=False, drop_last=False)
data_loader(items, batch_size) ==
    LET n == Len(items)
        nb == (n + batch_size - 1) \div batch_size
    IN  [b \in 1..nb |-> SubSeq(items, (b - 1) * batch_size + 1, Min(b * batch_size, n))]

\* The loop `for encode in data_loader` collates a batch over the keys of its
\* first item: a batch whose first item has labels and a later one has none
\* ends the loop with a KeyError.  An encoding without the key 'labels' is
\* kept with labels <<>>.
collate_fails(batches) ==
    \E b \in 1..Len(batches) :
        /\ batches[b][1].labels # <<>>
        /\ \E i \in 1..Len(batches[b]) : batches[b][i].labels = <<>>

\* ------------------------------------------------------------- Prompter
get_partition(list) ==
    LET length == [i \in 1..Len(list) |-> Len(list[i])]
        sumTo[k \in 0..Len(list)] == IF k = 0 THEN 0 ELSE sumTo[k - 1] + length[k]
    IN  [x \in 1..Len(list) |-> <<sumTo[x - 1], sumTo[x]>>]

\* self.is_causal, which __init__ asserts to be False
is_causal == FALSE

\* `label = label[1:] + [PAD_TOKEN_LABEL_ID]` when the model is causal
shift_if_causal(label) ==
    IF is_causal THEN SubSeq(label, 2, Len(label)) \o <<IGNORE>> ELSE label

\* `for p, i in zip(label_position, label_id): label[p] = i`, from the k-th
\* pair on; a Python index p counts from 0, and from the end when negative
RECURSIVE set_labels(_, _, _, _)
set_labels(label, label_position, label_id, k) ==
    IF k > Len(label_position) THEN Ret(shift_if_causal(label))
    ELSE LET p == label_position[k]
             at == IF p >= 0 THEN p + 1 ELSE Len(label) + p + 1
         IN  IF at \notin 1..Len(label) THEN Raise("IndexError")
             ELSE set_labels([label EXCEPT ![at] = label_id[k]], label_position, label_id,
                             k + 1)

\* input_ids_to_labels(input_ids), label_position and label_id left None
input_ids_to_labels_of_ids(input_ids) ==
    Ret(shift_if_causal([i \in 1..Len(input_ids) |->
                            IF input_ids[i] = PAD THEN IGNORE ELSE input_ids[i]]))

\* input_ids_to_labels(input_ids, label_position, label_id), both lists
input_ids_to_labels(input_ids, label_position, label_id) ==
    IF Len(label_position) # Len(label_id) THEN Raise("AssertionError")
    ELSE set_labels(Repeat(IGNORE, Len(input_ids)), label_position, label_id, 1)

\* the `assert len(encode['input_ids']) < self.max_length, 'exceed max_length'`
within_max_length(input_ids) == Len(input_ids) < max_length

\* how a map over calls ends that gave rs: as the first of them, from the
\* i-th on, that raised
RECURSIVE first_raised_from(_, _)
first_raised_from(rs, i) ==
    IF i > Len(rs) THEN "return"
    ELSE IF rs[i].kind # "return" THEN rs[i].kind
    ELSE first_raised_from(rs, i + 1)

first_raised(rs) == first_raised_from(rs, 1)

\* encode_with_single_mask_id(mask_position), mask_position counted from 0
encode_with_single_mask_id(token_list, mask_position) ==
    LET masked_token_id == token_list[mask_position + 1]
        token_list_ == [token_list EXCEPT ![mask_position + 1] = MASK]
        tmp_string == convert_tokens_to_string(token_list_)
        input_ids == tokenizer_encode_plus(tmp_string)
        labels == input_ids_to_labels(input_ids, <<mask_position + Len(sp_token_prefix)>>,
                                      <<masked_token_id>>)
    IN  IF masked_token_id = MASK THEN [kind |-> "None", val |-> <<>>]
        ELSE IF ~within_max_length(input_ids) THEN Raise("AssertionError")
        ELSE IF labels.kind # "return" THEN Raise(labels.kind)
        ELSE Ret([input_ids |-> input_ids, labels |-> labels.val])

\* list(filter(None, map(encode_with_single_mask_id, range(length)))) from
\* position p (counted from 0) on, kept holding what the positions before it
\* gave; token_wise_next takes what encode_with_single_mask_id gave at p
RECURSIVE token_wise_from(_, _, _, _), token_wise_next(_, _, _, _, _)
token_wise_from(token_list, length, p, kept) ==
    IF p >= length THEN Ret(kept)
    ELSE token_wise_next(encode_with_single_mask_id(token_list, p), token_list, length, p, kept)

token_wise_next(r, token_list, length, p, kept) ==
    IF r.kind = "None" THEN token_wise_from(token_list, length, p + 1, kept)
    ELSE IF r.kind = "return" THEN token_wise_from(token_list, length, p + 1, Append(kept, r.val))
    ELSE Raise(r.kind)

encode_plus(sentence, token_wise_mask) ==
    IF ~token_wise_mask
    THEN IF ~ContainsMask(sentence) THEN Raise("AssertionError")
         ELSE LET input_ids == tokenizer_encode_plus(sentence)
              IN  IF ~within_max_length(input_ids) THEN Raise("AssertionError")
                  ELSE Ret(<<[input_ids |-> input_ids, labels |-> <<>>]>>)
    ELSE token_wise_from(tokenize(sentence),
                         Min(max_length - Len(sp_token_prefix), Len(tokenize(sentence))),
                         0, <<>>)

\* A method's result: how it ended, what it returned, and the Prompter's
\* model handle and load count after it.
Out(kind, val, st) == [kind |-> kind, val |-> val, model |-> st.model, n_load |-> st.n_load]

RECURSIVE SumFrom(_, _)
SumFrom(s, i) == IF i > Len(s) THEN 0 ELSE s[i] + SumFrom(s, i + 1)

SumSeq(s) == SumFrom(s, 1)

\* load_model: self.model is assigned before the device count is asserted
load_model(st) ==
    LET loaded == [model |-> "masked_lm", n_load |-> st.n_load + 1]
    IN  IF n_gpu <= 1 THEN Out("return", <<>>, loaded)
        ELSE Out("AssertionError", <<>>, loaded)

\* the guard of load_model without its `self.model is None` test
ensure_model_again(st) == load_model(st)

\* `if self.model is None: self.load_model()`
ensure_model(st) == IF st.model = "None" THEN load_model(st) ELSE Out("return", <<>>, st)

\* a perplexity exp(num / den) is kept as the pair num, den
ppl_less(p, q) == p.num * q.den < q.num * p.den

\* ppl.index(min(ppl)): the first index holding a least value, from 1
index_of_min(ppl) ==
    CHOOSE i \in 1..Len(ppl) :
        /\ \A j \in 1..Len(ppl) : ~ppl_less(ppl[j], ppl[i])
        /\ \A j \in 1..(i - 1) : ppl_less(ppl[i], ppl[j])

\* one item of a batch in get_perplexity: the summed loss over the number of
\* labels that are not ignore_index (exactly one label is set per item)
item_nll(encode) ==
    LET labels == encode.labels
        loss == SumSeq([i \in 1..Len(labels) |-> cross_entropy(i - 1, labels[i])])
        n_label == Cardinality({i \in 1..Len(labels) : labels[i] # IGNORE})
    IN  loss \div n_label

\* get_perplexity once the model handle is there: ld is what load_model left
perplexity_of(ld, sentences, batch_size) ==
    LET enc == [i \in 1..Len(sentences) |-> encode_plus(sentences[i], TRUE)]
        data == [i \in 1..Len(sentences) |-> enc[i].val]
        partition == get_partition(data)
        batches == data_loader(Flatten(data), batch_size)
        nll == Flatten([b \in 1..Len(batches) |->
                           [i \in 1..Len(batches[b]) |-> item_nll(batches[b][i])]])
        perplexity == [x \in 1..Len(partition) |->
                          [num |-> SumSeq(SubSeq(nll, partition[x][1] + 1, partition[x][2])),
                           den |-> partition[x][2] - partition[x][1]]]
    IN  IF ld.kind # "return" THEN Out(ld.kind, <<>>, ld)
        ELSE IF \E i \in 1..Len(enc) : enc[i].kind # "return" THEN Out(first_raised(enc), <<>>, ld)
        ELSE IF collate_fails(batches) THEN Out("KeyError", <<>>, ld)
        ELSE IF \E x \in 1..Len(partition) : partition[x][2] = partition[x][1]
        THEN Out("ZeroDivisionError", <<>>, ld)
        ELSE Out("return", perplexity, ld)

get_perplexity(st, sentences, batch_size) ==
    perplexity_of(ensure_model(st), sentences, batch_size)

\* seed_middle with one mask too few
seed_middle_short(h, t, n_blank) ==
    Join(<<h>> \o Repeat(<<MASK>>, IF n_blank > 0 THEN n_blank - 1 ELSE 0) \o <<t>>, <<SP>>)

\* seed_type 'middle'
seed_middle(h, t, n_blank) == Join(<<h>> \o Repeat(<<MASK>>, n_blank) \o <<t>>, <<SP>>)

\* seed_type 'whole'
seed_whole(h, t, n_blank, n_blank_prefix, n_blank_suffix) ==
    Join(Repeat(<<MASK>>, n_blank_prefix) \o <<h>> \o Repeat(<<MASK>>, n_blank)
             \o <<t>> \o Repeat(<<MASK>>, n_blank_suffix), <<SP>>)

\* seed_type 'best': the candidates, pre_n outer and mid_n inner
seed_candidates(h, t) ==
    LET one(pre_n, mid_n) ==
            Join(Repeat(<<MASK>>, pre_n) \o <<h>> \o Repeat(<<MASK>>, mid_n) \o <<t>>, <<SP>>)
        row(pre_n) == [m \in 1..(max_length - 2 - pre_n) |-> one(pre_n, m)]
    IN  Flatten([p \in 1..(max_length - 2) |-> row(p - 1)])

\* best_seed = candidates[ppl.index(min(ppl))], ppl being what get_perplexity gave
best_seed(candidates, ppl) ==
    IF ppl.kind # "return" THEN ppl
    ELSE IF ppl.val = <<>> THEN Out("ValueError", <<>>, ppl)
    ELSE Out("return", candidates[index_of_min(ppl.val)], ppl)

seed_best(st, h, t, batch_size) ==
    best_seed(seed_candidates(h, t), get_perplexity(st, seed_candidates(h, t), batch_size))

SeedTypes == {"middle", "whole", "best"}

\* pair_to_seed taking an unrecognised seed_type for 'middle'
pair_to_seed_lenient(st, word_pair, n_blank, n_blank_prefix, n_blank_suffix, batch_size, seed_type) ==
    IF Len(word_pair) # 2 THEN Out("AssertionError", <<>>, st)
    ELSE CASE seed_type = "whole" ->
                Out("return", seed_whole(word_pair[1], word_pair[2], n_blank, n_blank_prefix,
                                         n_blank_suffix), st)
           [] seed_type = "best" -> seed_best(st, word_pair[1], word_pair[2], batch_size)
           [] OTHER -> Out("return", seed_middle(word_pair[1], word_pair[2], n_blank), st)

pair_to_seed(st, word_pair, n_blank, n_blank_prefix, n_blank_suffix, batch_size, seed_type) ==
    IF Len(word_pair) # 2 THEN Out("AssertionError", <<>>, st)
    ELSE LET h == word_pair[1]
             t == word_pair[2]
         IN  CASE seed_type = "middle" -> Out("return", seed_middle(h, t, n_blank), st)
               [] seed_type = "whole" ->
                    Out("return", seed_whole(h, t, n_blank, n_blank_prefix, n_blank_suffix), st)
               [] seed_type = "best" -> seed_best(st, h, t, batch_size)
               [] OTHER -> Out("ValueError", <<>>, st)

\* the default batch_size of get_perplexity, which replace_single_mask relies on
default_batch_size == 4

\* decode_topk without its test `head in decoded and tail in decoded`
decode_topk_unfiltered(inp, replace_pos, topk_per_position, head, tail) ==
    LET top == topk_at(replace_pos, topk_per_position)
    IN  [k \in 1..topk_per_position |->
            [decoded |-> cleanup_decode(decode([inp EXCEPT ![replace_pos + 1] = top.indices[k]])),
             likelihood |-> top.values[k], keep |-> TRUE]]

\* decode_topk for every k at one masked position of one input: the decoded
\* sentences that keep head and tail, each with its likelihood
decode_topk(inp, replace_pos, topk_per_position, head, tail) ==
    LET top == topk_at(replace_pos, topk_per_position)
        one(k) == LET inp_ == [inp EXCEPT ![replace_pos + 1] = top.indices[k]]
                      decoded == cleanup_decode(decode(inp_))
                  IN  [decoded |-> decoded, likelihood |-> top.values[k],
                       keep |-> IsInfix(head, decoded) /\ IsInfix(tail, decoded)]
    IN  SelectSeq([k \in 1..topk_per_position |-> one(k)], LAMBDA c : c.keep)

\* sorted(topk_decoded, key=lambda x: x[1], reverse=True), which is stable
RECURSIVE sorted_by_likelihood(_)
sorted_by_likelihood(cs) ==
    IF cs = <<>> THEN <<>>
    ELSE LET x == cs[Len(cs)]
             rest == sorted_by_likelihood(SubSeq(cs, 1, Len(cs) - 1))
             n_before == Cardinality({i \in 1..Len(rest) : rest[i].likelihood >= x.likelihood})
         IN  SubSeq(rest, 1, n_before) \o <<x>> \o SubSeq(rest, n_before + 1, Len(rest))

process_single_sentence(word_pair, part, total_input, topk, topk_per_position) ==
    LET head == word_pair[1]
        tail == word_pair[2]
        of_input(inp) ==
            Flatten([p \in 1..Len(inp) |->
                        IF inp[p] = MASK
                        THEN decode_topk(inp, p - 1, topk_per_position, head, tail)
                        ELSE <<>>])
        topk_decoded == sorted_by_likelihood(
            Flatten([i \in 1..(part[2] - part[1]) |-> of_input(total_input[part[1] + i])]))
    IN  [i \in 1..Min(topk, Len(topk_decoded)) |-> topk_decoded[i].decoded]

\* the perplexity_filter loop over greedy_filling, from sentence i on; ppl_pick
\* takes what get_perplexity gave for sentence i
RECURSIVE ppl_filter(_, _, _, _), ppl_pick(_, _, _, _)
ppl_filter(st, greedy_filling, i, best_edit) ==
    IF i > Len(greedy_filling) THEN Out("return", best_edit, st)
    ELSE ppl_pick(get_perplexity(st, greedy_filling[i], default_batch_size),
                  greedy_filling, i, best_edit)

ppl_pick(ppl, greedy_filling, i, best_edit) ==
    IF ppl.kind # "return" THEN ppl
    ELSE IF ppl.val = <<>> THEN Out("ValueError", <<>>, ppl)
    ELSE ppl_filter(ppl, greedy_filling, i + 1,
                    Append(best_edit, greedy_filling[i][index_of_min(ppl.val)]))

\* best_edit_of passing over the sentences that have no candidate
best_edit_skipping(st, greedy_filling, perplexity_filter) ==
    LET kept == SelectSeq(greedy_filling, LAMBDA c : Len(c) > 0)
    IN  IF perplexity_filter THEN ppl_filter(st, kept, 1, <<>>)
        ELSE Out("return", [i \in 1..Len(kept) |-> kept[i][1]], st)

\* best_edit of replace_single_mask
best_edit_of(st, greedy_filling, perplexity_filter) ==
    IF perplexity_filter THEN ppl_filter(st, greedy_filling, 1, <<>>)
    ELSE IF \E i \in 1..Len(greedy_filling) : greedy_filling[i] = <<>>
    THEN Out("IndexError", <<>>, st)
    ELSE Out("return", [i \in 1..Len(greedy_filling) |-> greedy_filling[i][1]], st)

\* greedy_filling: inference over the batches, then process_single_sentence;
\* ld is the Prompter the model was loaded on
greedy_filling_of(ld, data, word_pairs, batch_size, topk, topk_per_position) ==
    LET partition == get_partition(data)
        batches == data_loader(Flatten(data), batch_size)
        total_input == Flatten([b \in 1..Len(batches) |->
                                   [i \in 1..Len(batches[b]) |-> batches[b][i].input_ids]])
    IN  IF collate_fails(batches) THEN Out("KeyError", <<>>, ld)
        ELSE Out("return",
                 [x \in 1..Len(partition) |->
                     process_single_sentence(word_pairs[x], partition[x], total_input,
                                             topk, topk_per_position)],
                 ld)

\* replace_single_mask from greedy_filling on: g is what the inference and
\* process_single_sentence gave
best_edit_from(g, perplexity_filter) ==
    IF g.kind # "return" THEN g ELSE best_edit_of(g, g.val, perplexity_filter)

\* replace_single_mask from the encoding on: ld is what load_model left, enc
\* what encode_plus gave per sentence
replace_encoded(ld, enc, word_pairs, batch_size, topk, topk_per_position, perplexity_filter) ==
    IF ld.kind # "return" THEN Out(ld.kind, <<>>, ld)
    ELSE IF \E i \in 1..Len(enc) : enc[i].kind # "return" THEN Out(first_raised(enc), <<>>, ld)
    ELSE best_edit_from(greedy_filling_of(ld, [i \in 1..Len(enc) |-> enc[i].val], word_pairs,
                                          batch_size, topk, topk_per_position),
                        perplexity_filter)

replace_single_mask(st, seed_sentences, word_pairs, batch_size, topk, topk_per_position, perplexity_filter) ==
    IF Len(seed_sentences) # Len(word_pairs) THEN Out("AssertionError", <<>>, st)
    ELSE replace_encoded(
             ensure_model(st),
             [i \in 1..Len(seed_sentences) |->
                 encode_plus(seed_sentences[i], ~ContainsMask(seed_sentences[i]))],
             word_pairs, batch_size, topk, topk_per_position, perplexity_filter)

\* What one replace_mask call did: how it ended, the sentences returned, the
\* edit history (per pair once returned), the replace_single_mask passes begun
\* in the fill loop and in the revision loop, and the sentences given to the
\* last of these passes.
Done(kind, val, st, edit, passes, revisions, input) ==
    [kind |-> kind, val |-> val, model |-> st.model, n_load |-> st.n_load,
     edit |-> edit, passes |-> passes, revisions |-> revisions, input |-> input]

\* list(zip(*edit))
zip_edit(edit, n_pair) == [p \in 1..n_pair |-> [j \in 1..Len(edit) |-> edit[j][p]]]

\* seed_sentences = list(map(lambda x: self.pair_to_seed(x, **shared), word_pairs)),
\* from pair i on; seed_next takes what pair_to_seed gave for pair i
RECURSIVE seeds_from(_, _, _, _, _), seed_next(_, _, _, _, _)
seeds_from(st, word_pairs, i, a, seeds) ==
    IF i > Len(word_pairs) THEN Out("return", seeds, st)
    ELSE seed_next(pair_to_seed(st, word_pairs[i], a.n_blank, a.n_blank_prefix,
                                a.n_blank_suffix, a.batch_size, a.seed_type),
                   word_pairs, i, a, seeds)

seed_next(r, word_pairs, i, a, seeds) ==
    IF r.kind # "return" THEN r
    ELSE seeds_from(r, word_pairs, i + 1, a, Append(seeds, r.val))

\* `for i in range(n_revision)`, from revision i (counted from 0) on;
\* revision_next takes what replace_single_mask gave in revision i
RECURSIVE revision_loop(_, _, _, _, _, _, _, _), revision_next(_, _, _, _, _, _, _)
revision_loop(st, seed_sentences, last_input, word_pairs, edit, passes, i, a) ==
    IF i >= a.n_revision
    THEN Done("return", seed_sentences, st, zip_edit(edit, Len(word_pairs)), passes, i,
              last_input)
    ELSE revision_next(replace_single_mask(st, seed_sentences, word_pairs, a.batch_size,
                                           a.topk, a.topk_per_position, a.perplexity_filter),
                       seed_sentences, word_pairs, edit, passes, i, a)

revision_next(r, seed_sentences, word_pairs, edit, passes, i, a) ==
    IF r.kind # "return" THEN Done(r.kind, <<>>, r, edit, passes, i + 1, seed_sentences)
    ELSE revision_loop(r, r.val, seed_sentences, word_pairs, Append(edit, r.val), passes,
                       i + 1, a)

\* the `while True` loop, after `passes` passes, followed for MaxPass passes;
\* fill_next takes what replace_single_mask gave in this pass
RECURSIVE fill_loop(_, _, _, _, _, _), fill_next(_, _, _, _, _, _)
fill_loop(st, seed_sentences, word_pairs, edit, passes, a) ==
    IF passes >= MaxPass THEN Done("running", <<>>, st, edit, passes, 0, seed_sentences)
    ELSE fill_next(replace_single_mask(st, seed_sentences, word_pairs, a.batch_size,
                                       a.topk, a.topk_per_position, a.perplexity_filter),
                   seed_sentences, word_pairs, edit, passes, a)

fill_next(r, seed_sentences, word_pairs, edit, passes, a) ==
    IF r.kind # "return" THEN Done(r.kind, <<>>, r, edit, passes + 1, 0, seed_sentences)
    ELSE IF \A i \in 1..Len(r.val) : ~ContainsMask(r.val[i])
    THEN revision_loop(r, r.val, seed_sentences, word_pairs, edit, passes + 1, 0, a)
    ELSE fill_loop(r, r.val, word_pairs, Append(edit, r.val), passes + 1, a)

\* replace_mask once the seeds are built: seeds is what the map gave
replace_from_seeds(seeds, word_pairs, a) ==
    IF seeds.kind # "return" THEN Done(seeds.kind, <<>>, seeds, <<>>, 0, 0, <<>>)
    ELSE fill_loop(seeds, seeds.val, word_pairs, <<seeds.val>>, 0, a)

\* a.word_pairs is the argument; a.nested says whether its first element is a list
wrapped(a) == IF a.nested THEN a.word_pairs ELSE <<a.word_pairs>>

replace_mask(st, a) ==
    IF a.word_pairs = <<>> THEN Done("IndexError", <<>>, st, <<>>, 0, 0, <<>>)
    ELSE replace_from_seeds(seeds_from(st, wrapped(a), 1, a, <<>>), wrapped(a), a)

\* ------------------------------------------------------------- inputs
PairAB == <<<<"a">>, <<"b">>>>                    \* ['a', 'b']
PairEmpty == <<<<>>, <<>>>>                       \* ['', '']
BadPair == <<<<"a">>>>                            \* a word_pair of one element
LongText == Join(<<<<"a">>>> \o Repeat(<<"c">>, MaxLength) \o <<<<"b">>>>, <<SP>>)
AllMasks == Join(Repeat(<<MASK>>, MaxLength), <<SP>>)
Sentences ==
    { <<>>, <<"a", SP, "b">>, <<"a", SP, MASK, SP, "b">>, <<MASK, SP, "a">>, LongText, AllMasks }
Lists(S) == {<<>>} \cup {<<x>> : x \in S} \cup {<<x, y>> : x \in S, y \in S}
SeedLists == Lists({<<>>, <<"a", SP, "b">>, <<"a", SP, MASK, SP, "b">>}) \cup {<<LongText>>}
PairLists == {<<>>, <<PairAB>>, <<PairEmpty>>, <<PairAB, PairEmpty>>}

\* the arguments that shape a seed; those a seed_type does not read stay 0 or 1
SeedArgs ==
    {[seed_type |-> "middle", n_blank |-> n, n_blank_prefix |-> 0, n_blank_suffix |-> 0,
      batch_size |-> 1] : n \in 0..MaxBlank}
    \cup {[seed_type |-> "whole", n_blank |-> n, n_blank_prefix |-> p, n_blank_suffix |-> q,
           batch_size |-> 1] : n \in 0..MaxBlank, p \in 0..MaxAffix, q \in 0..MaxAffix}
    \cup {[seed_type |-> ty, n_blank |-> 0, n_blank_prefix |-> 0, n_blank_suffix |-> 0,
           batch_size |-> bs] : ty \in {"best", "other"}, bs \in 1..MaxBatch}

Idle == [op |-> "idle"]
NoOutcome == [kind |-> "none", val |-> <<>>]
NoTrace == [passes |-> 0, revisions |-> 0, edit |-> <<>>, input |-> <<>>]
Self == [model |-> model, n_load |-> n_load]

\* ------------------------------------------------------------- behaviour
Init ==
    /\ max_length \in 2..MaxLength
    /\ n_gpu \in 0..MaxGpu
    /\ lm \in LMs
    /\ model = "None"
    /\ n_load = 0
    /\ call = Idle
    /\ outcome = NoOutcome
    /\ trace = NoTrace

Finish(c, r, tr) ==
    /\ call' = c
    /\ outcome' = [kind |-> r.kind, val |-> r.val]
    /\ model' = r.model
    /\ n_load' = r.n_load
    /\ trace' = tr
    /\ UNCHANGED <<max_length, n_gpu, lm>>

FinishTraced(c, r) ==
    Finish(c, r, [passes |-> r.passes, revisions |-> r.revisions, edit |-> r.edit,
                  input |-> r.input])

CallPairToSeed ==
    /\ call = Idle
    /\ \E wp \in {PairAB, PairEmpty, BadPair}, sa \in SeedArgs :
          Finish([op |-> "pair_to_seed", word_pair |-> wp] @@ sa,
                 pair_to_seed(Self, wp, sa.n_blank, sa.n_blank_prefix, sa.n_blank_suffix,
                              sa.batch_size, sa.seed_type), NoTrace)

CallEncodePlus ==
    /\ call = Idle
    /\ \E sentence \in Sentences, token_wise_mask \in BOOLEAN :
          Finish([op |-> "encode_plus", sentence |-> sentence,
                  token_wise_mask |-> token_wise_mask],
                 encode_plus(sentence, token_wise_mask) @@ Self, NoTrace)

CallGetPerplexity ==
    /\ call = Idle
    /\ \E sentences \in Lists(Sentences), batch_size \in 1..MaxBatch :
          Finish([op |-> "get_perplexity", sentences |-> sentences, batch_size |-> batch_size],
                 get_perplexity(Self, sentences, batch_size), NoTrace)

CallReplaceSingleMask ==
    /\ call = Idle
    /\ \E seed_sentences \in SeedLists, word_pairs \in PairLists, k \in {1, MaxTopk},
          topk \in {1, MaxTopk}, perplexity_filter \in BOOLEAN :
          Finish([op |-> "replace_single_mask", seed_sentences |-> seed_sentences,
                  word_pairs |-> word_pairs, batch_size |-> k, topk |-> topk,
                  topk_per_position |-> k, perplexity_filter |-> perplexity_filter],
                 replace_single_mask(Self, seed_sentences, word_pairs, k, topk, k,
                                     perplexity_filter), NoTrace)

CallReplaceMask ==
    /\ call = Idle
    /\ \E nested \in BOOLEAN, sa \in SeedArgs, n_revision \in 0..MaxRevision,
          k \in {1, MaxTopk}, perplexity_filter \in BOOLEAN :
       \E word_pairs \in IF nested THEN PairLists \cup {<<BadPair>>} ELSE {PairAB} :
          /\ sa.n_blank_prefix = sa.n_blank_suffix
          /\ LET a == [op |-> "replace_mask", word_pairs |-> word_pairs, nested |-> nested,
                       n_revision |-> n_revision, topk |-> k, topk_per_position |-> k,
                       perplexity_filter |-> perplexity_filter] @@ sa
             IN  FinishTraced(a, replace_mask(Self, a))

\* load_model called by the user of the Prompter: it loads whether or not a
\* model handle is there
CallLoadModel ==
    /\ call = Idle
    /\ n_load < MaxLoad
    /\ Finish([op |-> "load_model"], load_model(Self), NoTrace)

\* the caller takes the result (or the exception) and the Prompter is free again
Return ==
    /\ call # Idle
    /\ call' = Idle
    /\ outcome' = NoOutcome
    /\ trace' = NoTrace
    /\ UNCHANGED <<max_length, n_gpu, lm, model, n_load>>

Next ==
    \/ CallPairToSeed
    \/ CallEncodePlus
    \/ CallGetPerplexity
    \/ CallReplaceSingleMask
    \/ CallReplaceMask
    \/ CallLoadModel
    \/ Return

Spec == Init /\ [][Next]_vars

\* --------------------------------- process_single_sentence as a function
\* process_single_sentence (lines 284-310) and the choice of the best edit
\* that follows it (lines 312-327) are a function of total_input, partition,
\* word_pairs, topk, topk_per_position, perplexity_filter and the loaded
\* model.  Under Spec no call gets as far as line 284, since every encode_plus
\* of a sentence with a token raises at line 187 or 201; the function is
\* applied here to arguments drawn from bounded sets.
PairBC == <<<<"b">>, <<"c">>>>                    \* ['b', 'c']

\* rows of total_input: lists of ids, some with one or two mask tokens
InputRows ==
    { <<BOS, MASK, "c", EOS, PAD>>, <<BOS, "b", MASK, EOS, PAD>>,
      <<BOS, "b", MASK, "c", EOS>>, <<BOS, MASK, MASK, "b", EOS>>,
      <<BOS, "b", "c", EOS, PAD>> }

TotalInputs == {<<x>> : x \in InputRows} \cup {<<x, y>> : x, y \in InputRows}

\* partition of n rows: one sentence that owns all rows, or one sentence per row
Partitions(n) == { << <<0, n>> >>, [i \in 1..n |-> <<i - 1, i>>] }

\* greedy_filling = list(map(process_single_sentence, range(len(partition))))
greedy_filling_at(word_pairs, partition, total_input, topk, topk_per_position) ==
    [x \in 1..Len(partition) |->
        process_single_sentence(word_pairs[x], partition[x], total_input, topk,
                                topk_per_position)]

\* a Prompter whose model is loaded, as it is from line 257 on, with a device
\* count load_model accepts
InitLoaded ==
    /\ max_length \in 2..MaxLength
    /\ n_gpu \in 0..1
    /\ lm \in LMs
    /\ model = "masked_lm"
    /\ n_load = 1
    /\ call = Idle
    /\ outcome = NoOutcome
    /\ trace = NoTrace

ApplyProcessSingleSentence ==
    /\ call = Idle
    /\ \E total_input \in TotalInputs, k \in {1, MaxTopk}, topk \in {1, MaxTopk},
          perplexity_filter \in BOOLEAN :
       \E partition \in Partitions(Len(total_input)) :
       \E word_pairs \in [1..Len(partition) -> {PairAB, PairBC}] :
          Finish([op |-> "process_single_sentence", total_input |-> total_input,
                  partition |-> partition, word_pairs |-> word_pairs, topk |-> topk,
                  topk_per_position |-> k, perplexity_filter |-> perplexity_filter],
                 best_edit_of(Self,
                              greedy_filling_at(word_pairs, partition, total_input, topk, k),
                              perplexity_filter),
                 NoTrace)

NextProcess ==
    \/ ApplyProcessSingleSentence
    \/ Return

SpecProcess == InitLoaded /\ [][NextProcess]_vars

\* ------------------------------------------------------------- claims
Errors == {"AssertionError", "ValueError", "IndexError", "ZeroDivisionError", "KeyError"}

\* the sentence's ids, special tokens included, number fewer than max_length
Fits(sentence) ==
    Len(tokenize(sentence)) + Len(sp_token_prefix) + Len(sp_token_suffix) < max_length

\* the mask tokens of the seed template a pair_to_seed or replace_mask call asks for
TemplateMasks ==
    call.n_blank + (IF call.seed_type = "whole" THEN call.n_blank_prefix + call.n_blank_suffix
                    ELSE 0)

\* a replace_mask call on pairs of two non-empty words with a seed_type in
\* `types`, on a machine load_model accepts, the seed template holding a mask
\* token and every seed fitting in max_length
GoodReplaceMask(types) ==
    /\ call.op = "replace_mask"
    /\ call.seed_type \in types
    /\ call.word_pairs # <<>>
    /\ n_gpu <= 1
    /\ TemplateMasks >= 1
    /\ \A i \in 1..Len(wrapped(call)) :
          LET wp == wrapped(call)[i]
          IN  /\ Len(wp) = 2
              /\ tokenize(wp[1]) # <<>>
              /\ tokenize(wp[2]) # <<>>
              /\ Len(tokenize(wp[1])) + Len(tokenize(wp[2])) + TemplateMasks
                     + Len(sp_token_prefix) + Len(sp_token_suffix) < max_length

\* a replace_single_mask call on as many pairs of non-empty words as sentences,
\* one at least, on a machine load_model accepts, every sentence holding the
\* head and the tail of its pair and fitting in max_length
GoodReplaceSingleMask ==
    /\ call.op = "replace_single_mask"
    /\ Len(call.seed_sentences) = Len(call.word_pairs)
    /\ call.seed_sentences # <<>>
    /\ n_gpu <= 1
    /\ \A i \in 1..Len(call.seed_sentences) :
          /\ Fits(call.seed_sentences[i])
          /\ call.word_pairs[i][1] # <<>>
          /\ call.word_pairs[i][2] # <<>>
          /\ IsInfix(call.word_pairs[i][1], call.seed_sentences[i])
          /\ IsInfix(call.word_pairs[i][2], call.seed_sentences[i])

\* C1: every replace_mask call on valid arguments ends; its fill loop makes at
\* most as many passes as the seed template has mask tokens; and it returns
\* sentences none of which contains a mask token.  (Stated for the templates
\* that hold a mask token and fit in max_length.)
C1_FillTerminates ==
    GoodReplaceMask({"middle", "whole"}) =>
        /\ outcome.kind = "return"
        /\ trace.passes <= TemplateMasks
        /\ \A i \in 1..Len(outcome.val) : ~ContainsMask(outcome.val[i])

\* greedy_filling of a process_single_sentence application: the candidates
\* kept for each sentence
Kept ==
    greedy_filling_at(call.word_pairs, call.partition, call.total_input, call.topk,
                      call.topk_per_position)

\* every candidate in kept, and every sentence in returned, contains the head
\* and the tail of the word pair at its index
HeadTailIn(kept, returned, word_pairs) ==
    /\ \A x \in 1..Len(kept) : \A c \in 1..Len(kept[x]) :
          /\ IsInfix(word_pairs[x][1], kept[x][c])
          /\ IsInfix(word_pairs[x][2], kept[x][c])
    /\ \A i \in 1..Len(returned) :
          /\ i <= Len(word_pairs)
          /\ IsInfix(word_pairs[i][1], returned[i])
          /\ IsInfix(word_pairs[i][2], returned[i])

C3_PerplexityPerSentence ==
    ( /\ call.op = "get_perplexity"
      /\ call.sentences # <<>>
      /\ n_gpu <= 1
      /\ \A i \in 1..Len(call.sentences) :
            Fits(call.sentences[i]) /\ \E j \in 1..Len(call.sentences[i]) :
                                           call.sentences[i][j] \in Words ) =>
        /\ outcome.kind = "return"
        /\ Len(outcome.val) = Len(call.sentences)
        /\ \A bs \in 1..MaxBatch :
              LET n == Len(call.sentences)
                  swapped == get_perplexity(Self, [i \in 1..n |-> call.sentences[n + 1 - i]], bs)
              IN  /\ swapped.kind = "return"
                  /\ swapped.val = [i \in 1..n |-> outcome.val[n + 1 - i]]

\* C4: for a word pair of two elements, seed_type 'middle' gives head, n_blank
\* mask tokens, tail joined by single spaces, and 'whole' gives n_blank_prefix
\* masks, head, n_blank masks, tail, n_blank_suffix masks joined by single
\* spaces; the masks number the sum of the counts asked for.
C4_SeedTemplate ==
    ( /\ call.op = "pair_to_seed"
      /\ Len(call.word_pair) = 2
      /\ call.seed_type \in {"middle", "whole"} ) =>
        LET whole == call.seed_type = "whole"
            pre == IF whole THEN call.n_blank_prefix ELSE 0
            suf == IF whole THEN call.n_blank_suffix ELSE 0
            expected == Flatten([i \in 1..pre |-> <<MASK, SP>>])
                            \o call.word_pair[1]
                            \o Flatten([i \in 1..call.n_blank |-> <<SP, MASK>>])
                            \o <<SP>> \o call.word_pair[2]
                            \o Flatten([i \in 1..suf |-> <<SP, MASK>>])
        IN  /\ outcome.kind = "return"
            /\ outcome.val = expected
            /\ CountMask(outcome.val) = pre + call.n_blank + suf
            /\ ( call.word_pair = PairAB /\ ~whole /\ call.n_blank = 3 =>
                    outcome.val = <<"a", SP, MASK, SP, MASK, SP, MASK, SP, "b">> )

\* pair_to_seed(['a', 'b'], seed_type='middle', n_blank=3) has returned
\* 'a <mask> <mask> <mask> b'
C4_Witness ==
    /\ call.op = "pair_to_seed"
    /\ call.word_pair = PairAB
    /\ call.seed_type = "middle"
    /\ call.n_blank = 3
    /\ outcome = [kind |-> "return", val |-> <<"a", SP, MASK, SP, MASK, SP, MASK, SP, "b">>]

\* C5: with seed_type 'best' and max_length >= 3, pair_to_seed returns one of
\* the candidates (pre_n masks, head, mid_n masks, tail), and no candidate has
\* a strictly lower perplexity than the one returned.
C5_BestSeed ==
    ( /\ call.op = "pair_to_seed"
      /\ call.seed_type = "best"
      /\ Len(call.word_pair) = 2
      /\ call.word_pair[1] # <<>>
      /\ call.word_pair[2] # <<>>
      /\ max_length >= 3
      /\ n_gpu <= 1 ) =>
        LET candidates == seed_candidates(call.word_pair[1], call.word_pair[2])
            ppl == get_perplexity(Self, candidates, call.batch_size)
        IN  /\ outcome.kind = "return"
            /\ ppl.kind = "return"
            /\ \E i \in 1..Len(candidates) :
                  /\ candidates[i] = outcome.val
                  /\ \A j \in 1..Len(candidates) : ~ppl_less(ppl.val[j], ppl.val[i])

\* C6: a call of encode_plus, get_perplexity or replace_single_mask that hands
\* encode_plus a sentence of more than max_length ids, special tokens
\* included, ends in an assertion failure.
C6_TooLongAsserts ==
    LET too_long(sentence) ==
            Len(tokenize(sentence)) + Len(sp_token_prefix) + Len(sp_token_suffix) > max_length
        given == CASE call.op = "encode_plus" -> <<call.sentence>>
                   [] call.op = "get_perplexity" -> call.sentences
                   [] call.op = "replace_single_mask" -> call.seed_sentences
                   [] OTHER -> <<>>
    IN  (\E i \in 1..Len(given) : too_long(given[i])) => outcome.kind = "AssertionError"

\* C7: replace_mask returns the final sentences and, per word pair, a history
\* that starts with the seed, holds the output of every replace_single_mask
\* pass in order, and ends with the final sentence of that pair.
C7_FullHistory ==
    GoodReplaceMask({"middle", "whole"}) =>
        /\ outcome.kind = "return"
        /\ Len(trace.edit) = Len(outcome.val)
        /\ \A p \in 1..Len(trace.edit) :
              /\ Len(trace.edit[p]) = 1 + trace.passes + trace.revisions
              /\ trace.edit[p][Len(trace.edit[p])] = outcome.val[p]

\* C8: a pair_to_seed or replace_mask call with a seed_type other than
\* 'middle', 'whole' and 'best' ends in an error, with no replace_single_mask
\* pass made and the model handle and the load count left as they were.
C8_UnknownSeedType ==
    [][ ( /\ call = Idle
          /\ call'.op \in {"pair_to_seed", "replace_mask"}
          /\ call'.seed_type \notin SeedTypes ) =>
            /\ outcome'.kind \in Errors
            /\ trace'.passes = 0
            /\ trace'.revisions = 0
            /\ model' = model
            /\ n_load' = n_load ]_vars

\* replace_mask([['a', 'b']], seed_type='other') has raised ValueError
C8_Witness ==
    /\ call.op = "replace_mask"
    /\ call.seed_type = "other"
    /\ call.nested
    /\ call.word_pairs = <<PairAB>>
    /\ outcome.kind = "ValueError"

\* C9: replace_single_mask returns, for every sentence that held m >= 1 mask
\* tokens, a sentence that holds m - 1 of them.
C9_OneMaskPerPass ==
    ( /\ GoodReplaceSingleMask
      /\ \E i \in 1..Len(call.seed_sentences) : ContainsMask(call.seed_sentences[i]) ) =>
        /\ outcome.kind = "return"
        /\ Len(outcome.val) = Len(call.seed_sentences)
        /\ \A i \in 1..Len(outcome.val) :
              ContainsMask(call.seed_sentences[i]) =>
                  CountMask(outcome.val[i]) = CountMask(call.seed_sentences[i]) - 1

\* a sentence of kept has no candidate, and the call ended in an error of the
\* kind its perplexity_filter setting leads to
StarvedFails(kept) ==
    (\E x \in 1..Len(kept) : kept[x] = <<>>) =>
        /\ outcome.kind \in Errors
        /\ ~call.perplexity_filter => outcome.kind = "IndexError"
        /\ (call.perplexity_filter /\ kept[1] = <<>>) => outcome.kind = "ValueError"

C11_BestOfKept ==
    GoodReplaceSingleMask =>
        LET enc == [i \in 1..Len(call.seed_sentences) |->
                       encode_plus(call.seed_sentences[i], ~ContainsMask(call.seed_sentences[i]))]
            kept == greedy_filling_of(Self, [i \in 1..Len(enc) |-> enc[i].val],
                                      call.word_pairs, call.batch_size, call.topk,
                                      call.topk_per_position).val
            least(i) == get_perplexity(Self, kept[i], default_batch_size)
        IN  /\ outcome.kind = "return"
            /\ \A i \in 1..Len(enc) : enc[i].kind = "return"
            /\ Len(outcome.val) = Len(kept)
            /\ \A i \in 1..Len(kept) :
                  /\ Len(kept[i]) <= call.topk
                  /\ \E j \in 1..Len(kept[i]) : kept[i][j] = outcome.val[i]
                  /\ ~call.perplexity_filter => outcome.val[i] = kept[i][1]
                  /\ call.perplexity_filter =>
                        /\ least(i).kind = "return"
                        /\ outcome.val[i] = kept[i][index_of_min(least(i).val)]

\* a replace_mask call whose fill loop ended: a fill pass returned sentences
\* without a mask token, so that the call went on to its revision passes or
\* returned
FillLoopEnded ==
    /\ call.op = "replace_mask"
    /\ trace.passes >= 1
    /\ outcome.kind = "return" \/ trace.revisions >= 1

\* C12: once a fill pass leaves no mask token, replace_mask makes exactly
\* n_revision further replace_single_mask passes, each on sentences without a
\* mask token; with n_revision = 0 it returns the output of the last fill pass.
C12_RevisionPasses ==
    FillLoopEnded =>
        /\ trace.revisions = call.n_revision
        /\ trace.revisions >= 1 =>
              \A i \in 1..Len(trace.input) : ~ContainsMask(trace.input[i])
        /\ call.n_revision = 0 =>
              /\ outcome.kind = "return"
              /\ outcome.val = replace_single_mask(Self, trace.input, wrapped(call),
                                                   call.batch_size, call.topk,
                                                   call.topk_per_position,
                                                   call.perplexity_filter).val

\* no replace_mask call gets its fill loop ended: every fill pass ends in an
\* error, so C12_RevisionPasses has no case to decide
C12_FillLoopNeverEnds == ~FillLoopEnded

\* C13: encode_plus returns its encodings, raising nothing, for every sentence
\* of fewer than max_length ids, special tokens included: a sentence holding a
\* mask token in the masked-sentence mode, any sentence in the token-wise mode.
C13_FittingEncodes ==
    ( /\ call.op = "encode_plus"
      /\ Fits(call.sentence)
      /\ call.token_wise_mask \/ ContainsMask(call.sentence) ) =>
        /\ outcome.kind = "return"
        /\ ~call.token_wise_mask => Len(outcome.val) = 1
        /\ call.token_wise_mask =>
              Len(outcome.val) = Len(tokenize(call.sentence)) - CountMask(call.sentence)

\* C14: over any sequence of pair_to_seed, get_perplexity, replace_single_mask
\* and replace_mask calls, such a call runs load_model at most once and only
\* when it finds no model handle; a model handle is set from the first
\* load_model run on and never goes back to None, so that these calls run
\* load_model at most once in all; and the load_model of such a call completes
\* exactly when at most one accelerator device is present, the call failing on
\* its assertion otherwise.
C14_LoadOnce ==
    [][ /\ model # "None" => model' # "None"
        /\ n_load' >= n_load
        /\ n_load' >= 1 => model' # "None"
        /\ call'.op \in {"pair_to_seed", "get_perplexity", "replace_single_mask",
                         "replace_mask"} =>
              /\ n_load' <= n_load + 1
              /\ n_load' # n_load =>
                    /\ model = "None"
                    /\ n_load = 0
                    /\ load_model(Self).kind = "return" <=> n_gpu <= 1
                    /\ n_gpu > 1 => outcome'.kind = "AssertionError" ]_vars

\* replace_single_mask([''], [['', '']], perplexity_filter=True) came to
\* `if self.model is None` twice, in itself and in the get_perplexity of its
\* perplexity filter, on a Prompter whose model was loaded once
C14_Witness ==
    /\ call.op = "replace_single_mask"
    /\ call.perplexity_filter
    /\ call.seed_sentences = << <<>> >>
    /\ call.word_pairs = <<PairEmpty>>
    /\ outcome.kind = "ValueError"
    /\ n_gpu <= 1
    /\ model = "masked_lm"
    /\ n_load = 1

=============================================================================
